---- MODULE Spec2Model ----
(***************************************************************************)
(* Job execution engine of the MP4-to-GIF converter.                       *)
(*                                                                         *)
(* Two front ends are modelled, one per run of the program:                *)
(*   app = "desktop"  desktop_app/app.py : jobs live in the in-memory      *)
(*                    dictionary tasks_db, guarded by tasks_db_lock;       *)
(*   app = "webapp"   webapp/app.py      : jobs live in one status file    *)
(*                    per task, the pipeline is core_converter's           *)
(*                    run_conversion.                                      *)
(* An optional value (a dictionary key that may be missing, a Python None) *)
(* is a set: {} when absent, {v} when present.                             *)
(***************************************************************************)
EXTENDS Integers, Sequences, FiniteSets, TLC

\* ------------------------------------------------------------------ bounds
\* Number of lines the final ffmpeg process writes to stderr.
MaxLines == 2

\* Number of source deletions of one id after which uuid4 is no longer taken
\* to return that id again.
MaxReuse == 1

\* The task ids (uuid4 values) of the run: two submissions, so that every
\* pair of jobs runs concurrently in every interleaving.
Tasks == {1, 2}

\* ------------------------------------------------------------ input domains
\* Names of the original files a desktop user may pick.
OriginalNames == {"a", "b"}
\* What ffprobe returns for a stored source: {} (probe failed) or {seconds}.
ProbeResults == {{}, {90}}
\* (start_time, end_time) pairs of a request; end_time {} when not given.
Windows == {[start_time |-> 0, end_time |-> {}], [start_time |-> 25, end_time |-> {10}]}
\* HH:MM:SS.hh tokens ffmpeg may print after "time=".
TimeStamps == {<<0, 0, 45, 0>>, <<0, 2, 15, 0>>}
\* One stderr line: stamp is {} when the line holds no time= token.
TimeLines == {[stamp |-> {ts}, text |-> "progress"] : ts \in TimeStamps}
TextLines == {[stamp |-> {}, text |-> "diag"]}
Lines == TimeLines \cup TextLines
\* stderr captured by subprocess.run from a failed ffmpeg run.
FailureStderr == {<<[stamp |-> {}, text |-> "palette_diag_1"]>>, <<[stamp |-> {}, text |-> "palette_diag_2"]>>}
FileStates == {"absent", "empty", "data"}

RECURSIVE SeqsUpTo(_, _)
SeqsUpTo(S, n) == IF n = 0 THEN {<<>>} ELSE LET shorter == SeqsUpTo(S, n - 1) IN shorter \cup {Append(q, x) : q \in {r \in shorter : Len(r) = n - 1}, x \in S}

\* Everything the final ffmpeg process may write to stderr.
StderrOutputs == SeqsUpTo(Lines, MaxLines)

Min(a, b) == IF a < b THEN a ELSE b

\* ------------------------------------------------------------------- paths
InputPath(t) == <<"uploads", "uuid", t, "mp4">>
\* Line 50 with a palette name that does not depend on the job.
PalettePath_Shared(t) == <<"outputs", "palette", 1, "png">>
PalettePath(t) == <<"outputs", "palette", t, "png">>
WebOutputPath(t) == <<"outputs", "uuid", t, "gif">>
DesktopOutputPath(name) == <<"outputs", "name", 0, name>>
Paths == {InputPath(t) : t \in Tasks} \cup {PalettePath(t) : t \in Tasks} \cup {WebOutputPath(t) : t \in Tasks} \cup {DesktopOutputPath(n) : n \in OriginalNames}

VARIABLES
    app,        \* which front end this run of the program is
    request,    \* per submission: {} before it is made, {parameters} after
    response,   \* per submission: what the /convert handler returned
    tasks_db,   \* desktop: task id -> record (only ids that were created)
    lock,       \* desktop: holder of tasks_db_lock, 0 when free
    status,     \* webapp: task id -> content of <task id>.status.json
    fs,         \* path -> "absent" | "empty" | "data"
    pc,         \* per task: position of its worker thread
    exc,        \* per task: {} or {exception in flight / caught}
    pipe,       \* per task: stderr lines of the final process not yet read
    consumed,   \* per task: stderr lines the progress loop has read
    deletes,    \* per task: successful os.remove calls on the source by its worker
    remove_failed, \* per task: the worker's latest os.remove on the source raised OSError
    snapshot,   \* {} or {what the latest GET /status/<task id> read}
    db_file,    \* desktop: {} or {content of tasks_db.json written at close}
    window,     \* desktop: "open" | "closed", the pywebview window
    invocations \* per task: the ffmpeg processes its worker started, with their exit codes

vars == <<app, request, response, tasks_db, lock, status, fs, pc, exc, pipe, consumed, deletes, remove_failed, snapshot, db_file, window, invocations>>

\* ----------------------------------------------------------------- records
Record(state) == [state |-> state, output_path |-> {}, result |-> {}, error |-> {}, progress |-> {}, step |-> {}]
Error(msg, detail) == [msg |-> msg, detail |-> detail]

\* The parameters of task t's request.
Req(t) == CHOOSE r \in request[t] : TRUE

\* conversion_duration as computed at submit (desktop) or in the worker (webapp).
ConversionDuration(start_time, end_time, video_duration) == IF end_time # {} THEN Min(CHOOSE e \in end_time : TRUE, video_duration) - start_time ELSE video_duration - start_time

\* One process started by a worker: which command, and {} while it runs or
\* {its exit code}.
Invocation(cmd, returncode) == [cmd |-> cmd, returncode |-> returncode]

Init ==
    /\ app \in {"desktop", "webapp"}
    /\ request = [t \in Tasks |-> {}]
    /\ response = [t \in Tasks |-> "none"]
    /\ tasks_db = <<>>
    /\ lock = 0
    /\ status = <<>>
    /\ fs = [p \in Paths |-> "absent"]
    /\ pc = [t \in Tasks |-> "idle"]
    /\ exc = [t \in Tasks |-> {}]
    /\ pipe = [t \in Tasks |-> <<>>]
    /\ consumed = [t \in Tasks |-> <<>>]
    /\ deletes = [t \in Tasks |-> 0]
    /\ remove_failed = [t \in Tasks |-> FALSE]
    /\ snapshot = {}
    /\ db_file = {}
    /\ window = "open"
    /\ invocations = [t \in Tasks |-> <<>>]

\* uuid.uuid4(): the next identifier never handed out before.
FreshId == CHOOSE t \in Tasks : request[t] = {} /\ \A u \in Tasks : u < t => request[u] # {}

\* os.remove(path) when it succeeds.
Remove(path) == [fs EXCEPT ![path] = "absent"]

\* ================================================================ desktop
\* The parameters of a request as parsed at lines 248-258 (desktop) or by
\* _parse_conversion_params (webapp): both only convert the types.
Form(name, w, hq, fps, width) == [name |-> name, start_time |-> w.start_time, end_time |-> w.end_time, high_quality |-> hq, fps |-> fps, width |-> width]
JobRequest(form, probe, input_path, output_path) == [name |-> form.name, start_time |-> form.start_time, end_time |-> form.end_time, high_quality |-> form.high_quality, fps |-> form.fps, width |-> form.width, probe |-> probe, input_path |-> input_path, output_path |-> output_path]

\* POST /convert of the desktop app, the whole handler: t is the value
\* uuid.uuid4() returned at line 260, probe what ffprobe reports, configured
\* whether app.config holds FFMPEG_PATH and FFPROBE_PATH (lines 292-294).
DesktopSubmitForm(t, form, probe, configured) ==
    /\ app = "desktop"
    /\ \E removeFails \in BOOLEAN :
        LET req == JobRequest(form, probe, InputPath(t), DesktopOutputPath(form.name))
            rejected == probe = {} \/ ConversionDuration(form.start_time, form.end_time, CHOOSE d \in probe : TRUE) <= 0
        IN  /\ request' = [request EXCEPT ![t] = {req}]
            /\ invocations' = [invocations EXCEPT ![t] = <<>>]
            /\ IF ~configured
               THEN /\ removeFails = FALSE
                    /\ fs' = [fs EXCEPT ![InputPath(t)] = "data"]
                    /\ response' = [response EXCEPT ![t] = "error"]
                    /\ UNCHANGED <<tasks_db, pc>>
               ELSE IF rejected
               THEN /\ fs' = [fs EXCEPT ![InputPath(t)] = IF removeFails THEN "data" ELSE "absent"]
                    /\ response' = [response EXCEPT ![t] = "error"]
                    /\ UNCHANGED <<tasks_db, pc>>
               ELSE /\ removeFails = FALSE
                    /\ lock = 0
                    /\ fs' = [fs EXCEPT ![InputPath(t)] = "data"]
                    /\ tasks_db' = (t :> [Record("PENDING") EXCEPT !.output_path = {req.output_path}]) @@ tasks_db
                    /\ response' = [response EXCEPT ![t] = "accepted"]
                    /\ pc' = [pc EXCEPT ![t] = "d_run"]
    /\ UNCHANGED <<snapshot, db_file, window, app, lock, status, exc, pipe, consumed, deletes, remove_failed>>

\* The handler on a configured application, for requests within the
\* constraints (fps and width at their defaults).
DesktopSubmitAs(t) == \E name \in OriginalNames, w \in Windows, hq \in BOOLEAN, probe \in ProbeResults : DesktopSubmitForm(t, Form(name, w, hq, 15, 640), probe, TRUE)

\* POST /convert of the desktop app; the identifier is one never handed out.
DesktopSubmit ==
    /\ \E t \in Tasks : request[t] = {}
    /\ DesktopSubmitAs(FreshId)

\* The exception held by task t's worker.
Exc(t) == CHOOSE e \in exc[t] : TRUE
Exception(type, msg, detail) == [type |-> type, msg |-> msg, detail |-> detail]
NoDetail == <<>>

\* The worker with subprocess.run moved inside `with tasks_db_lock:`.
DesktopRun_UnderLock(t) ==
    /\ app = "desktop"
    /\ pc[t] = "d_run"
    /\ lock = 0
    /\ lock' = t
    /\ \E outcome \in {"exit_zero", "exit_nonzero", "spawn_error"}, out \in FileStates, stderr \in FailureStderr :
        CASE outcome = "exit_zero" ->
                /\ fs' = [fs EXCEPT ![Req(t).output_path] = out]
                /\ pc' = [pc EXCEPT ![t] = "d_success"]
                /\ invocations' = [invocations EXCEPT ![t] = Append(@, Invocation("ffmpeg", {0}))]
                /\ stderr = CHOOSE e \in FailureStderr : TRUE
                /\ UNCHANGED exc
          [] outcome = "exit_nonzero" ->
                /\ out = fs[Req(t).output_path]
                /\ invocations' = [invocations EXCEPT ![t] = Append(@, Invocation("ffmpeg", {1}))]
                /\ exc' = [exc EXCEPT ![t] = {Exception("CalledProcessError", "returned non-zero exit status", stderr)}]
                /\ pc' = [pc EXCEPT ![t] = "d_failure"]
                /\ UNCHANGED fs
          [] outcome = "spawn_error" ->
                /\ out = fs[Req(t).output_path]
                /\ stderr = CHOOSE e \in FailureStderr : TRUE
                /\ UNCHANGED invocations
                /\ exc' = [exc EXCEPT ![t] = {Exception("OSError", "could not start ffmpeg", NoDetail)}]
                /\ pc' = [pc EXCEPT ![t] = "d_failure"]
                /\ UNCHANGED fs
    /\ UNCHANGED <<snapshot, db_file, window, app, request, response, tasks_db, status, pipe, consumed, deletes, remove_failed>>

\* subprocess.run(command, check=True, capture_output=True) in the worker.
DesktopRun(t) ==
    /\ app = "desktop"
    /\ pc[t] = "d_run"
    /\ \E outcome \in {"exit_zero", "exit_nonzero", "spawn_error"}, out \in FileStates, stderr \in FailureStderr :
        CASE outcome = "exit_zero" ->
                /\ fs' = [fs EXCEPT ![Req(t).output_path] = out]
                /\ pc' = [pc EXCEPT ![t] = "d_success"]
                /\ invocations' = [invocations EXCEPT ![t] = Append(@, Invocation("ffmpeg", {0}))]
                /\ stderr = CHOOSE e \in FailureStderr : TRUE
                /\ UNCHANGED exc
          [] outcome = "exit_nonzero" ->
                /\ out = fs[Req(t).output_path]
                /\ invocations' = [invocations EXCEPT ![t] = Append(@, Invocation("ffmpeg", {1}))]
                /\ exc' = [exc EXCEPT ![t] = {Exception("CalledProcessError", "returned non-zero exit status", stderr)}]
                /\ pc' = [pc EXCEPT ![t] = "d_failure"]
                /\ UNCHANGED fs
          [] outcome = "spawn_error" ->
                /\ out = fs[Req(t).output_path]
                /\ stderr = CHOOSE e \in FailureStderr : TRUE
                /\ UNCHANGED invocations
                /\ exc' = [exc EXCEPT ![t] = {Exception("OSError", "could not start ffmpeg", NoDetail)}]
                /\ pc' = [pc EXCEPT ![t] = "d_failure"]
                /\ UNCHANGED fs
    /\ UNCHANGED <<snapshot, db_file, window, app, request, response, tasks_db, lock, status, pipe, consumed, deletes, remove_failed>>

\* The message the desktop worker stores for the user (error_message_for_ui).
ErrorMessageForUi(e) == IF e.type = "CalledProcessError" THEN Error("conversion error (FFmpeg), see the log file", NoDetail) ELSE Error("conversion error (exception type), see the log file", NoDetail)

\* with tasks_db_lock: tasks_db[task_id]['state'] = ...   (first statement of the block)
DesktopWriteState(t) ==
    /\ app = "desktop"
    /\ pc[t] \in {"d_success", "d_failure"}
    /\ lock = 0
    /\ lock' = t
    /\ tasks_db' = [tasks_db EXCEPT ![t].state = IF pc[t] = "d_success" THEN "SUCCESS" ELSE "FAILURE"]
    /\ pc' = [pc EXCEPT ![t] = IF pc[t] = "d_success" THEN "d_success_field" ELSE "d_failure_field"]
    /\ UNCHANGED <<invocations, snapshot, db_file, window, app, request, response, status, fs, exc, pipe, consumed, deletes, remove_failed>>

\* ... tasks_db[task_id]['output_path' | 'error'] = ...   (second statement, then the lock is released)
DesktopWriteField(t) ==
    /\ app = "desktop"
    /\ pc[t] \in {"d_success_field", "d_failure_field"}
    /\ lock = t
    /\ tasks_db' = IF pc[t] = "d_success_field" THEN [tasks_db EXCEPT ![t].output_path = {Req(t).output_path}] ELSE [tasks_db EXCEPT ![t].error = {ErrorMessageForUi(Exc(t))}]
    /\ lock' = 0
    /\ exc' = [exc EXCEPT ![t] = {}]
    /\ pc' = [pc EXCEPT ![t] = "d_finally"]
    /\ UNCHANGED <<invocations, snapshot, db_file, window, app, request, response, status, fs, pipe, consumed, deletes, remove_failed>>

\* The worker's finally block with the os.remove call left out.
DesktopFinally_NoRemove(t) ==
    /\ app = "desktop"
    /\ pc[t] = "d_finally"
    /\ pc' = [pc EXCEPT ![t] = "done"]
    /\ UNCHANGED <<invocations, snapshot, db_file, window, app, request, response, tasks_db, lock, status, fs, exc, pipe, consumed, deletes, remove_failed>>

\* finally: if os.path.exists(job.input_path): os.remove(job.input_path), OSError logged.
DesktopFinally(t) ==
    /\ app = "desktop"
    /\ pc[t] = "d_finally"
    /\ \E removeFails \in BOOLEAN :
        IF fs[Req(t).input_path] # "absent"
        THEN IF removeFails
             THEN /\ remove_failed' = [remove_failed EXCEPT ![t] = TRUE]
                  /\ UNCHANGED <<fs, deletes>>
             ELSE /\ fs' = Remove(Req(t).input_path)
                  /\ deletes' = [deletes EXCEPT ![t] = @ + 1]
                  /\ remove_failed' = [remove_failed EXCEPT ![t] = FALSE]
        ELSE /\ removeFails = FALSE
             /\ UNCHANGED <<fs, deletes, remove_failed>>
    /\ pc' = [pc EXCEPT ![t] = "done"]
    /\ UNCHANGED <<invocations, snapshot, db_file, window, app, request, response, tasks_db, lock, status, exc, pipe, consumed>>

\* ================================================================= webapp
\* update_task_status(task_id, state, data): the status file is rewritten whole.
update_task_status(t, state, data) == (t :> [f \in DOMAIN Record(state) |-> IF f \in DOMAIN data THEN data[f] ELSE Record(state)[f]]) @@ status

\* POST /convert of the webapp, the whole handler: t is the value
\* uuid.uuid4() returned at line 194.
WebSubmitForm(t, form, probe) ==
    /\ app = "webapp"
    /\ request' = [request EXCEPT ![t] = {JobRequest(form, probe, InputPath(t), WebOutputPath(t))}]
    /\ fs' = [fs EXCEPT ![InputPath(t)] = "data"]
    /\ status' = update_task_status(t, "PENDING", <<>>)
    /\ response' = [response EXCEPT ![t] = "accepted"]
    /\ pc' = [pc EXCEPT ![t] = "w_begin"]
    /\ UNCHANGED <<invocations, snapshot, db_file, window, app, tasks_db, lock, exc, pipe, consumed, deletes, remove_failed>>

\* POST /convert of the webapp for requests within the constraints (fps and
\* width at their defaults); the identifier is one never handed out.
WebSubmit ==
    /\ \E t \in Tasks : request[t] = {}
    /\ \E w \in Windows, hq \in BOOLEAN, probe \in ProbeResults : WebSubmitForm(FreshId, Form("upload", w, hq, 10, 320), probe)

\* progress_callback(progress, step) of conversion_worker.
progress_callback(t, progress, step) == update_task_status(t, "PROGRESS", [progress |-> {progress}, step |-> {step}])

\* conversion_worker, line 98: the first status write of the worker.
WebBegin(t) ==
    /\ app = "webapp"
    /\ pc[t] = "w_begin"
    /\ status' = progress_callback(t, 0, "probing video")
    /\ pc' = [pc EXCEPT ![t] = "w_probe"]
    /\ UNCHANGED <<invocations, snapshot, db_file, window, app, request, response, tasks_db, lock, fs, exc, pipe, consumed, deletes, remove_failed>>

\* conversion_duration of task t's request, once its probe succeeded.
JobDuration(t) == ConversionDuration(Req(t).start_time, Req(t).end_time, CHOOSE d \in Req(t).probe : TRUE)

\* conversion_worker, lines 99-111: probe and window check.
WebProbe(t) ==
    /\ app = "webapp"
    /\ pc[t] = "w_probe"
    /\ IF Req(t).probe = {}
       THEN /\ exc' = [exc EXCEPT ![t] = {Exception("Exception", "could not get video information", NoDetail)}]
            /\ pc' = [pc EXCEPT ![t] = "w_except"]
       ELSE IF JobDuration(t) <= 0
       THEN /\ exc' = [exc EXCEPT ![t] = {Exception("ValueError", "conversion window is not positive", NoDetail)}]
            /\ pc' = [pc EXCEPT ![t] = "w_except"]
       ELSE /\ pc' = [pc EXCEPT ![t] = "rc_start"]
            /\ UNCHANGED exc
    /\ UNCHANGED <<invocations, snapshot, db_file, window, app, request, response, tasks_db, lock, status, fs, pipe, consumed, deletes, remove_failed>>

\* RcAnnounce without the high_quality branch: every job goes straight to the
\* single GIF invocation.
RcAnnounce_SkipsPalette(t) ==
    /\ app = "webapp"
    /\ pc[t] = "rc_start"
    /\ status' = progress_callback(t, 0, IF Req(t).high_quality THEN "Generating Palette" ELSE "Creating GIF")
    /\ pc' = [pc EXCEPT ![t] = "rc_popen"]
    /\ UNCHANGED <<invocations, snapshot, db_file, window, app, request, response, tasks_db, lock, fs, exc, pipe, consumed, deletes, remove_failed>>

\* run_conversion, line 49 or 63: the first progress event.
RcAnnounce(t) ==
    /\ app = "webapp"
    /\ pc[t] = "rc_start"
    /\ status' = progress_callback(t, 0, IF Req(t).high_quality THEN "Generating Palette" ELSE "Creating GIF")
    /\ pc' = [pc EXCEPT ![t] = IF Req(t).high_quality THEN "rc_palette" ELSE "rc_popen"]
    /\ UNCHANGED <<invocations, snapshot, db_file, window, app, request, response, tasks_db, lock, fs, exc, pipe, consumed, deletes, remove_failed>>

\* RcPaletteRun without the return-code test of line 55: the pipeline goes on
\* to the second pass whatever the exit code.
RcPaletteRun_IgnoresReturnCode(t) ==
    /\ app = "webapp"
    /\ pc[t] = "rc_palette"
    /\ \E returncode \in {0, 1}, palette \in {"absent", "data"}, stderr \in FailureStderr :
        /\ invocations' = [invocations EXCEPT ![t] = Append(@, Invocation("palette", {returncode}))]
        /\ returncode = 0 => palette = "data"
        /\ stderr = CHOOSE e \in FailureStderr : TRUE
        /\ fs' = [fs EXCEPT ![PalettePath(t)] = palette]
        /\ pc' = [pc EXCEPT ![t] = "rc_announce_gif"]
        /\ UNCHANGED exc
    /\ UNCHANGED <<snapshot, db_file, window, app, request, response, tasks_db, lock, status, pipe, consumed, deletes, remove_failed>>

\* run_conversion, lines 50-56: the palette run and its return code.
RcPaletteRun(t) ==
    /\ app = "webapp"
    /\ pc[t] = "rc_palette"
    /\ \E returncode \in {0, 1}, palette \in {"absent", "data"}, stderr \in FailureStderr :
        /\ invocations' = [invocations EXCEPT ![t] = Append(@, Invocation("palette", {returncode}))]
        /\ IF returncode = 0
           THEN /\ palette = "data"
                /\ stderr = CHOOSE e \in FailureStderr : TRUE
                /\ fs' = [fs EXCEPT ![PalettePath(t)] = "data"]
                /\ pc' = [pc EXCEPT ![t] = "rc_announce_gif"]
                /\ UNCHANGED exc
           ELSE /\ fs' = [fs EXCEPT ![PalettePath(t)] = palette]
                /\ exc' = [exc EXCEPT ![t] = {Exception("Exception", "Palette generation failed: ", stderr)}]
                /\ pc' = [pc EXCEPT ![t] = "rc_finally_input"]
    /\ UNCHANGED <<snapshot, db_file, window, app, request, response, tasks_db, lock, status, pipe, consumed, deletes, remove_failed>>

\* run_conversion, line 58: the progress event that opens the second pass.
RcAnnounceGif(t) ==
    /\ app = "webapp"
    /\ pc[t] = "rc_announce_gif"
    /\ status' = progress_callback(t, 20, "Creating GIF")
    /\ pc' = [pc EXCEPT ![t] = "rc_popen"]
    /\ UNCHANGED <<invocations, snapshot, db_file, window, app, request, response, tasks_db, lock, fs, exc, pipe, consumed, deletes, remove_failed>>

\* run_conversion, line 61 or 66: the final process starts; its stderr is what it will write.
RcPopen(t) ==
    /\ app = "webapp"
    /\ pc[t] = "rc_popen"
    /\ \E output \in StderrOutputs : pipe' = [pipe EXCEPT ![t] = output]
    /\ pc' = [pc EXCEPT ![t] = "rc_loop"]
    /\ invocations' = [invocations EXCEPT ![t] = Append(@, Invocation("gif", {}))]
    /\ UNCHANGED <<snapshot, db_file, window, app, request, response, tasks_db, lock, status, fs, exc, consumed, deletes, remove_failed>>

\* Line 74 without the hundredths group of the token.
CurrentTime_NoHundredths(ts) == (ts[1] * 3600 + ts[2] * 60 + ts[3]) * 100

\* current_time of a time= token, in hundredths of a second (line 74).
CurrentTime(ts) == (ts[1] * 3600 + ts[2] * 60 + ts[3]) * 100 + ts[4]

\* Lines 77-79 without the min(100, ...) of line 79.
Progress_NoClamp(ts, conversion_duration, high_quality) == LET base_progress == IF high_quality THEN 20 ELSE 0 IN (base_progress * 100 * conversion_duration + CurrentTime(ts) * (100 - base_progress)) \div (100 * conversion_duration)

\* Lines 77-79; conversion_duration in seconds, the quotient taken exactly.
Progress(ts, conversion_duration, high_quality) == LET base_progress == IF high_quality THEN 20 ELSE 0 IN Min(100, (base_progress * 100 * conversion_duration + CurrentTime(ts) * (100 - base_progress)) \div (100 * conversion_duration))

\* run_conversion, lines 70-80: one iteration of the stderr loop.
RcReadLine(t) ==
    /\ app = "webapp"
    /\ pc[t] = "rc_loop"
    /\ pipe[t] # <<>>
    /\ LET line == Head(pipe[t])
       IN  /\ pipe' = [pipe EXCEPT ![t] = Tail(@)]
           /\ consumed' = [consumed EXCEPT ![t] = Append(@, line)]
           /\ status' = IF line.stamp # {} /\ JobDuration(t) > 0 THEN progress_callback(t, Progress(CHOOSE ts \in line.stamp : TRUE, JobDuration(t), Req(t).high_quality), "Creating GIF") ELSE status
    /\ UNCHANGED <<invocations, snapshot, db_file, window, app, request, response, tasks_db, lock, fs, pc, exc, deletes, remove_failed>>

\* os.path.exists(path) and os.path.getsize(path) > 0.
ArtifactOk(path) == fs[path] = "data"

\* RcWait without the loop of lines 70-80 before it: wait() is called whatever
\* is left in the pipe.
RcWait_BeforeDrain(t) ==
    /\ app = "webapp"
    /\ pc[t] = "rc_loop"
    /\ \E returncode \in {0, 1}, out \in FileStates :
        /\ fs' = [fs EXCEPT ![Req(t).output_path] = out]
        /\ invocations' = [invocations EXCEPT ![t][Len(invocations[t])].returncode = {returncode}]
        /\ exc' = [exc EXCEPT ![t] = IF returncode # 0 THEN {Exception("Exception", "FFmpeg failed: ", pipe[t])} ELSE IF out # "data" THEN {Exception("Exception", "Output GIF file was not created.", NoDetail)} ELSE {}]
    /\ consumed' = [consumed EXCEPT ![t] = <<>>]
    /\ pc' = [pc EXCEPT ![t] = "rc_finally_input"]
    /\ UNCHANGED <<snapshot, db_file, window, app, request, response, tasks_db, lock, status, pipe, deletes, remove_failed>>

\* run_conversion, lines 82-88: readline returned '', wait, return code, artifact check.
RcWait(t) ==
    /\ app = "webapp"
    /\ pc[t] = "rc_loop"
    /\ pipe[t] = <<>>
    /\ \E returncode \in {0, 1}, out \in FileStates :
        /\ fs' = [fs EXCEPT ![Req(t).output_path] = out]
        /\ invocations' = [invocations EXCEPT ![t][Len(invocations[t])].returncode = {returncode}]
        /\ exc' = [exc EXCEPT ![t] = IF returncode # 0 THEN {Exception("Exception", "FFmpeg failed: ", pipe[t])} ELSE IF out # "data" THEN {Exception("Exception", "Output GIF file was not created.", NoDetail)} ELSE {}]
    /\ consumed' = [consumed EXCEPT ![t] = <<>>]
    /\ pc' = [pc EXCEPT ![t] = "rc_finally_input"]
    /\ UNCHANGED <<snapshot, db_file, window, app, request, response, tasks_db, lock, status, pipe, deletes, remove_failed>>

OSError == Exception("OSError", "os.remove failed", NoDetail)

\* run_conversion, line 91: finally, the source is removed if it exists.
RcFinallyInput(t) ==
    /\ app = "webapp"
    /\ pc[t] = "rc_finally_input"
    /\ \E removeFails \in BOOLEAN :
        IF fs[Req(t).input_path] # "absent"
        THEN IF removeFails
             THEN /\ remove_failed' = [remove_failed EXCEPT ![t] = TRUE]
                  /\ exc' = [exc EXCEPT ![t] = {OSError}]
                  /\ pc' = [pc EXCEPT ![t] = "w_except"]
                  /\ UNCHANGED <<fs, deletes>>
             ELSE /\ fs' = Remove(Req(t).input_path)
                  /\ deletes' = [deletes EXCEPT ![t] = @ + 1]
                  /\ pc' = [pc EXCEPT ![t] = "rc_finally_palette"]
                  /\ UNCHANGED <<exc, remove_failed>>
        ELSE /\ removeFails = FALSE
             /\ pc' = [pc EXCEPT ![t] = "rc_finally_palette"]
             /\ UNCHANGED <<fs, deletes, exc, remove_failed>>
    /\ UNCHANGED <<invocations, snapshot, db_file, window, app, request, response, tasks_db, lock, status, pipe, consumed>>

\* run_conversion, line 92: finally, the palette is removed if it exists; then the function is left.
RcFinallyPalette(t) ==
    /\ app = "webapp"
    /\ pc[t] = "rc_finally_palette"
    /\ \E removeFails \in BOOLEAN :
        IF Req(t).high_quality /\ fs[PalettePath(t)] # "absent"
        THEN IF removeFails
             THEN /\ exc' = [exc EXCEPT ![t] = {OSError}]
                  /\ pc' = [pc EXCEPT ![t] = "w_except"]
                  /\ UNCHANGED fs
             ELSE /\ fs' = Remove(PalettePath(t))
                  /\ pc' = [pc EXCEPT ![t] = IF exc[t] # {} THEN "w_except" ELSE "w_verify"]
                  /\ UNCHANGED exc
        ELSE /\ removeFails = FALSE
             /\ pc' = [pc EXCEPT ![t] = IF exc[t] # {} THEN "w_except" ELSE "w_verify"]
             /\ UNCHANGED <<fs, exc>>
    /\ UNCHANGED <<invocations, snapshot, db_file, window, app, request, response, tasks_db, lock, status, pipe, consumed, deletes, remove_failed>>

\* conversion_worker, lines 134-135: the worker's own check of the artifact.
WebVerify(t) ==
    /\ app = "webapp"
    /\ pc[t] = "w_verify"
    /\ IF ArtifactOk(Req(t).output_path)
       THEN /\ pc' = [pc EXCEPT ![t] = "w_success"]
            /\ UNCHANGED exc
       ELSE /\ exc' = [exc EXCEPT ![t] = {Exception("Exception", "GIF file was empty or not created", NoDetail)}]
            /\ pc' = [pc EXCEPT ![t] = "w_except"]
    /\ UNCHANGED <<invocations, snapshot, db_file, window, app, request, response, tasks_db, lock, status, fs, pipe, consumed, deletes, remove_failed>>

\* conversion_worker, lines 138-139: the SUCCESS write.
WebSuccess(t) ==
    /\ app = "webapp"
    /\ pc[t] = "w_success"
    /\ status' = update_task_status(t, "SUCCESS", [result |-> {Req(t).output_path}])
    /\ pc' = [pc EXCEPT ![t] = "w_finally"]
    /\ UNCHANGED <<invocations, snapshot, db_file, window, app, request, response, tasks_db, lock, fs, exc, pipe, consumed, deletes, remove_failed>>

\* str(e) of the exception the worker caught.
Str(e) == Error(e.msg, e.detail)

\* conversion_worker, lines 141-143: except Exception, the FAILURE write.
WebExcept(t) ==
    /\ app = "webapp"
    /\ pc[t] = "w_except"
    /\ status' = update_task_status(t, "FAILURE", [error |-> {Str(Exc(t))}])
    /\ exc' = [exc EXCEPT ![t] = {}]
    /\ pc' = [pc EXCEPT ![t] = "w_finally"]
    /\ UNCHANGED <<invocations, snapshot, db_file, window, app, request, response, tasks_db, lock, fs, pipe, consumed, deletes, remove_failed>>

\* The worker's finally block reporting a failed os.remove as the job's FAILURE.
WebFinally_ReportsRemoveError(t) ==
    /\ app = "webapp"
    /\ pc[t] = "w_finally"
    /\ \E removeFails \in BOOLEAN :
        IF fs[Req(t).input_path] # "absent"
        THEN IF removeFails
             THEN /\ remove_failed' = [remove_failed EXCEPT ![t] = TRUE]
                  /\ status' = update_task_status(t, "FAILURE", [error |-> {Str(OSError)}])
                  /\ UNCHANGED <<fs, deletes>>
             ELSE /\ fs' = Remove(Req(t).input_path)
                  /\ deletes' = [deletes EXCEPT ![t] = @ + 1]
                  /\ remove_failed' = [remove_failed EXCEPT ![t] = FALSE]
                  /\ UNCHANGED status
        ELSE /\ removeFails = FALSE
             /\ UNCHANGED <<fs, deletes, remove_failed, status>>
    /\ pc' = [pc EXCEPT ![t] = "done"]
    /\ UNCHANGED <<invocations, snapshot, db_file, window, app, request, response, tasks_db, lock, exc, pipe, consumed>>

\* conversion_worker, lines 144-152: finally, the source is removed if it exists, OSError printed.
WebFinally(t) ==
    /\ app = "webapp"
    /\ pc[t] = "w_finally"
    /\ \E removeFails \in BOOLEAN :
        IF fs[Req(t).input_path] # "absent"
        THEN IF removeFails
             THEN /\ remove_failed' = [remove_failed EXCEPT ![t] = TRUE]
                  /\ UNCHANGED <<fs, deletes>>
             ELSE /\ fs' = Remove(Req(t).input_path)
                  /\ deletes' = [deletes EXCEPT ![t] = @ + 1]
                  /\ remove_failed' = [remove_failed EXCEPT ![t] = FALSE]
        ELSE /\ removeFails = FALSE
             /\ UNCHANGED <<fs, deletes, remove_failed>>
    /\ pc' = [pc EXCEPT ![t] = "done"]
    /\ UNCHANGED <<invocations, snapshot, db_file, window, app, request, response, tasks_db, lock, status, exc, pipe, consumed>>

\* ==================================================================== next
Next ==
    \/ DesktopSubmit
    \/ WebSubmit
    \/ \E t \in Tasks : DesktopRun(t)
    \/ \E t \in Tasks : DesktopWriteState(t)
    \/ \E t \in Tasks : DesktopWriteField(t)
    \/ \E t \in Tasks : DesktopFinally(t)
    \/ \E t \in Tasks : WebBegin(t)
    \/ \E t \in Tasks : WebProbe(t)
    \/ \E t \in Tasks : RcAnnounce(t)
    \/ \E t \in Tasks : RcPaletteRun(t)
    \/ \E t \in Tasks : RcAnnounceGif(t)
    \/ \E t \in Tasks : RcPopen(t)
    \/ \E t \in Tasks : RcReadLine(t)
    \/ \E t \in Tasks : RcWait(t)
    \/ \E t \in Tasks : RcFinallyInput(t)
    \/ \E t \in Tasks : RcFinallyPalette(t)
    \/ \E t \in Tasks : WebVerify(t)
    \/ \E t \in Tasks : WebSuccess(t)
    \/ \E t \in Tasks : WebExcept(t)
    \/ \E t \in Tasks : WebFinally(t)

Spec == Init /\ [][Next]_vars

\* --------------------------------------------------- a session after a restart
\* main() calls load_tasks_on_startup before the window exists: tasks_db starts
\* as the table the previous session's save_tasks_on_close wrote, if any. The
\* previous session's ids are not ids of this session (LoadedIds), and no
\* worker thread is started for a loaded record.
LoadedIds == {0}
LoadedRecords == {[Record("PENDING") EXCEPT !.output_path = {DesktopOutputPath(name)}] : name \in {"a"}} \cup {[Record("SUCCESS") EXCEPT !.output_path = {DesktopOutputPath(name)}] : name \in {"a"}}
\* Every id a record of the table can have.
JobIds == Tasks \cup LoadedIds
LoadedTables == {<<>>} \cup {(id :> r) : id \in LoadedIds, r \in LoadedRecords}

\* tasks_db.update(json.load(f)) on the empty table of line 42 of app.py.
load_tasks_on_startup(db, table) == table @@ db

InitRestart ==
    /\ app \in {"desktop", "webapp"}
    /\ request = [t \in Tasks |-> {}]
    /\ response = [t \in Tasks |-> "none"]
    /\ \E table \in (IF app = "desktop" THEN LoadedTables ELSE {<<>>}) : tasks_db = load_tasks_on_startup(<<>>, table)
    /\ lock = 0
    /\ status = <<>>
    /\ fs = [p \in Paths |-> "absent"]
    /\ pc = [t \in Tasks |-> "idle"]
    /\ exc = [t \in Tasks |-> {}]
    /\ pipe = [t \in Tasks |-> <<>>]
    /\ consumed = [t \in Tasks |-> <<>>]
    /\ deletes = [t \in Tasks |-> 0]
    /\ remove_failed = [t \in Tasks |-> FALSE]
    /\ snapshot = {}
    /\ db_file = {}
    /\ window = "open"
    /\ invocations = [t \in Tasks |-> <<>>]

\* Every step of the worker thread of task t.
Worker(t) == DesktopRun(t) \/ DesktopWriteState(t) \/ DesktopWriteField(t) \/ DesktopFinally(t) \/ WebBegin(t) \/ WebProbe(t) \/ RcAnnounce(t) \/ RcPaletteRun(t) \/ RcAnnounceGif(t) \/ RcPopen(t) \/ RcReadLine(t) \/ RcWait(t) \/ RcFinallyInput(t) \/ RcFinallyPalette(t) \/ WebVerify(t) \/ WebSuccess(t) \/ WebExcept(t) \/ WebFinally(t)

\* Threads are scheduled fairly and every external process terminates: a worker
\* that can take its next step eventually takes it.
FairSpec == InitRestart /\ [][Next]_vars /\ \A t \in Tasks : WF_vars(Worker(t))

\* ------------------------------------------- desktop: status query and shutdown
Snapshot(id, data) == [task |-> id, data |-> data]

\* Lines 340-345 without the `with tasks_db_lock:` of line 340.
DesktopGetTaskStatus_NoLock(id) ==
    /\ app = "desktop"
    /\ snapshot' = {Snapshot(id, IF id \in DOMAIN tasks_db THEN tasks_db[id] ELSE Record("NOT_FOUND"))}
    /\ UNCHANGED <<invocations, app, request, response, tasks_db, lock, status, fs, pc, exc, pipe, consumed, deletes, remove_failed, db_file, window>>

\* GET /status/<task_id> of the desktop app, lines 338-345: the record is looked
\* up and copied inside `with tasks_db_lock:`.
DesktopGetTaskStatus(id) ==
    /\ app = "desktop"
    /\ lock = 0
    /\ snapshot' = {Snapshot(id, IF id \in DOMAIN tasks_db THEN tasks_db[id] ELSE Record("NOT_FOUND"))}
    /\ UNCHANGED <<invocations, app, request, response, tasks_db, lock, status, fs, pc, exc, pipe, consumed, deletes, remove_failed, db_file, window>>

\* main.py, on_closing (lines 174-196): reads every record's state, takes no
\* lock; the window closes unless a task is running and the user says no.
OnClosing ==
    /\ app = "desktop"
    /\ window = "open"
    /\ \E confirm_close \in BOOLEAN :
        LET is_task_running == \E id \in DOMAIN tasks_db : tasks_db[id].state \notin {"SUCCESS", "FAILURE"}
        IN  window' = IF is_task_running /\ ~confirm_close THEN "open" ELSE "closed"
    /\ UNCHANGED <<invocations, app, request, response, tasks_db, lock, status, fs, pc, exc, pipe, consumed, deletes, remove_failed, snapshot, db_file>>

\* main.py, save_tasks_on_close (lines 91-98), run by the closed event: dumps
\* tasks_db, takes no lock; webview.start then returns and the process exits,
\* which ends the daemon worker threads where they are.
SaveTasksOnClose ==
    /\ app = "desktop"
    /\ window = "closed"
    /\ db_file' = {tasks_db}
    /\ app' = "exited"
    /\ UNCHANGED <<invocations, request, response, tasks_db, lock, status, fs, pc, exc, pipe, consumed, deletes, remove_failed, snapshot, window>>

InitDesktop == Init /\ app = "desktop"

NextDesktop ==
    \/ DesktopSubmit
    \/ \E t \in Tasks : DesktopRun(t)
    \/ \E t \in Tasks : DesktopWriteState(t)
    \/ \E t \in Tasks : DesktopWriteField(t)
    \/ \E t \in Tasks : DesktopFinally(t)
    \/ \E id \in Tasks : DesktopGetTaskStatus(id)
    \/ OnClosing
    \/ SaveTasksOnClose

SpecDesktop == InitDesktop /\ [][NextDesktop]_vars

\* ------------------------------------------------ webapp: status file access
\* update_task_status, lines 80-81: open(status_filepath, 'w') empties the
\* file, json.dump then writes the record; nothing makes the two one step.
EmptyFile == Record("")

\* The next step of worker t calls update_task_status.
WritesStatus(t) == pc[t] \in {"w_begin", "rc_start", "rc_announce_gif", "w_success", "w_except"} \/ (pc[t] = "rc_loop" /\ pipe[t] # <<>> /\ Head(pipe[t]).stamp # {} /\ JobDuration(t) > 0)

\* Line 80: the worker opens its status file for writing, which truncates it.
WebOpenStatus(t) ==
    /\ app = "webapp"
    /\ WritesStatus(t)
    /\ t \in DOMAIN status
    /\ status[t] # EmptyFile
    /\ status' = [status EXCEPT ![t] = EmptyFile]
    /\ UNCHANGED <<invocations, app, request, response, tasks_db, lock, fs, pc, exc, pipe, consumed, deletes, remove_failed, snapshot, db_file, window>>

\* Worker t may take its next step: a step that writes the status file comes
\* after the open that truncated it.
Opened(t) == WritesStatus(t) => (t \in DOMAIN status /\ status[t] = EmptyFile)

\* GET /status/<task_id> of the webapp, lines 231-248: no file, 404; otherwise
\* json.load of the file as it is, which raises JSONDecodeError on an empty one.
WebGetTaskStatus(id) ==
    /\ app = "webapp"
    /\ snapshot' = {Snapshot(id, IF id \notin DOMAIN status THEN Record("NOT_FOUND") ELSE IF status[id] = EmptyFile THEN Record("JSONDecodeError") ELSE status[id])}
    /\ UNCHANGED <<invocations, app, request, response, tasks_db, lock, status, fs, pc, exc, pipe, consumed, deletes, remove_failed, db_file, window>>

InitWeb == Init /\ app = "webapp"

\* One upload, its worker, and status queries at any moment.
NextWebStatus ==
    \/ (\A t \in Tasks : request[t] = {}) /\ WebSubmit
    \/ \E t \in Tasks : WebOpenStatus(t)
    \/ \E t \in Tasks : Opened(t) /\ WebBegin(t)
    \/ \E t \in Tasks : Opened(t) /\ WebProbe(t)
    \/ \E t \in Tasks : Opened(t) /\ RcAnnounce(t)
    \/ \E t \in Tasks : Opened(t) /\ RcPaletteRun(t)
    \/ \E t \in Tasks : Opened(t) /\ RcAnnounceGif(t)
    \/ \E t \in Tasks : Opened(t) /\ RcPopen(t)
    \/ \E t \in Tasks : Opened(t) /\ RcReadLine(t)
    \/ \E t \in Tasks : Opened(t) /\ RcWait(t)
    \/ \E t \in Tasks : Opened(t) /\ RcFinallyInput(t)
    \/ \E t \in Tasks : Opened(t) /\ RcFinallyPalette(t)
    \/ \E t \in Tasks : Opened(t) /\ WebVerify(t)
    \/ \E t \in Tasks : Opened(t) /\ WebSuccess(t)
    \/ \E t \in Tasks : Opened(t) /\ WebExcept(t)
    \/ \E t \in Tasks : Opened(t) /\ WebFinally(t)
    \/ \E id \in Tasks : WebGetTaskStatus(id)

SpecWebStatus == InitWeb /\ [][NextWebStatus]_vars

\* ------------------------------------------------- webapp: cleanup scheduler
\* cleanup_scheduler, lines 269-290: every check_interval the thread removes
\* each file of the upload and output folders whose modification time is more
\* than CLEANUP_DELAY_SECONDS old. That setting is any integer of the
\* environment and the time a job takes is not limited, so at a sweep any
\* existing file may be old enough; which job a file belongs to, and the state
\* of that job, are not looked at.
WebFiles == {InputPath(t) : t \in Tasks} \cup {PalettePath(t) : t \in Tasks} \cup {WebOutputPath(t) : t \in Tasks}

\* Lines 283-286 for a source, palette or GIF file.
CleanupRemoveFile(path) ==
    /\ app = "webapp"
    /\ fs[path] # "absent"
    /\ fs' = Remove(path)
    /\ UNCHANGED <<invocations, app, request, response, tasks_db, lock, status, pc, exc, pipe, consumed, deletes, remove_failed, snapshot, db_file, window>>

\* Lines 283-286 for <task id>.status.json, which lives in the output folder.
CleanupRemoveStatus(t) ==
    /\ app = "webapp"
    /\ t \in DOMAIN status
    /\ status' = [u \in DOMAIN status \ {t} |-> status[u]]
    /\ UNCHANGED <<invocations, app, request, response, tasks_db, lock, fs, pc, exc, pipe, consumed, deletes, remove_failed, snapshot, db_file, window>>

\* run_conversion, line 91, as the two calls it is: os.path.exists(input_path)
\* first; the scheduler thread can run before the os.remove that follows.
RcFinallyInputExists(t) ==
    /\ app = "webapp"
    /\ pc[t] = "rc_finally_input"
    /\ pc' = [pc EXCEPT ![t] = IF fs[Req(t).input_path] # "absent" THEN "rc_remove_input" ELSE "rc_finally_palette"]
    /\ UNCHANGED <<invocations, snapshot, db_file, window, app, request, response, tasks_db, lock, status, fs, exc, pipe, consumed, deletes, remove_failed>>

FileNotFoundError == Exception("FileNotFoundError", "No such file or directory", NoDetail)

\* ... then os.remove(input_path): FileNotFoundError if the file is gone by
\* now, otherwise as in RcFinallyInput.
RcRemoveInput(t) ==
    /\ app = "webapp"
    /\ pc[t] = "rc_remove_input"
    /\ \E removeFails \in BOOLEAN :
        IF fs[Req(t).input_path] = "absent"
        THEN /\ removeFails = TRUE
             /\ remove_failed' = [remove_failed EXCEPT ![t] = TRUE]
             /\ exc' = [exc EXCEPT ![t] = {FileNotFoundError}]
             /\ pc' = [pc EXCEPT ![t] = "w_except"]
             /\ UNCHANGED <<fs, deletes>>
        ELSE IF removeFails
             THEN /\ remove_failed' = [remove_failed EXCEPT ![t] = TRUE]
                  /\ exc' = [exc EXCEPT ![t] = {OSError}]
                  /\ pc' = [pc EXCEPT ![t] = "w_except"]
                  /\ UNCHANGED <<fs, deletes>>
             ELSE /\ fs' = Remove(Req(t).input_path)
                  /\ deletes' = [deletes EXCEPT ![t] = @ + 1]
                  /\ pc' = [pc EXCEPT ![t] = "rc_finally_palette"]
                  /\ UNCHANGED <<exc, remove_failed>>
    /\ UNCHANGED <<invocations, snapshot, db_file, window, app, request, response, tasks_db, lock, status, pipe, consumed>>

\* One upload, its worker, and the scheduler thread at any moment.
NextCleanup ==
    \/ (\A t \in Tasks : request[t] = {}) /\ WebSubmit
    \/ \E t \in Tasks : WebBegin(t)
    \/ \E t \in Tasks : WebProbe(t)
    \/ \E t \in Tasks : RcAnnounce(t)
    \/ \E t \in Tasks : RcPaletteRun(t)
    \/ \E t \in Tasks : RcAnnounceGif(t)
    \/ \E t \in Tasks : RcPopen(t)
    \/ \E t \in Tasks : RcReadLine(t)
    \/ \E t \in Tasks : RcWait(t)
    \/ \E t \in Tasks : RcFinallyInputExists(t)
    \/ \E t \in Tasks : RcRemoveInput(t)
    \/ \E t \in Tasks : RcFinallyPalette(t)
    \/ \E t \in Tasks : WebVerify(t)
    \/ \E t \in Tasks : WebSuccess(t)
    \/ \E t \in Tasks : WebExcept(t)
    \/ \E t \in Tasks : WebFinally(t)
    \/ \E path \in WebFiles : CleanupRemoveFile(path)
    \/ \E t \in Tasks : CleanupRemoveStatus(t)

SpecCleanup == InitWeb /\ [][NextCleanup]_vars

\* ------------------------------------------- desktop: create under a used id
\* Line 260 draws the id at random and lines 315-316 assign tasks_db[task_id]
\* without looking the id up: here uuid4 may return the id of a record whose
\* worker has finished.
DesktopSubmitCollision == \E t \in Tasks : t \in DOMAIN tasks_db /\ pc[t] = "done" /\ deletes[t] <= MaxReuse /\ DesktopSubmitAs(t)

\* One submission under a fresh id, its worker, and later submissions that
\* draw the same id.
NextCollide ==
    \/ (\A t \in Tasks : request[t] = {}) /\ DesktopSubmit
    \/ DesktopSubmitCollision
    \/ \E t \in Tasks : DesktopRun(t)
    \/ \E t \in Tasks : DesktopWriteState(t)
    \/ \E t \in Tasks : DesktopWriteField(t)
    \/ \E t \in Tasks : DesktopFinally(t)

SpecCollide == InitDesktop /\ [][NextCollide]_vars

\* ------------------------------------------------------- the progress parser
\* The stderr loop of run_conversion on its own: one job in the loop, one line
\* waiting in the pipe, the line and the job's parameters drawn from wider sets.
ParserStamps == {<<h, m, s, hh>> : h \in {0, 1}, m \in {0, 1, 59}, s \in {0, 30, 45, 59}, hh \in {0, 50, 99}}
ParserLines == {[stamp |-> {ts}, text |-> "progress"] : ts \in ParserStamps} \cup TextLines
ParserDurations == {1, 30, 90}

\* The record the callback of line 58 or 63 left before the loop starts.
Announced(high_quality) == [Record("PROGRESS") EXCEPT !.progress = {IF high_quality THEN 20 ELSE 0}, !.step = {"Creating GIF"}]

InitParser ==
    /\ app = "webapp"
    /\ \E d \in ParserDurations, hq \in BOOLEAN, line \in ParserLines :
        /\ request = [t \in Tasks |-> IF t = 1 THEN {JobRequest(Form("upload", [start_time |-> 0, end_time |-> {}], hq, 10, 320), {d}, InputPath(1), WebOutputPath(1))} ELSE {}]
        /\ status = (1 :> Announced(hq))
        /\ pipe = [t \in Tasks |-> IF t = 1 THEN <<line>> ELSE <<>>]
        /\ fs = [p \in Paths |-> IF p = InputPath(1) \/ (hq /\ p = PalettePath(1)) THEN "data" ELSE "absent"]
    /\ response = [t \in Tasks |-> IF t = 1 THEN "accepted" ELSE "none"]
    /\ tasks_db = <<>>
    /\ lock = 0
    /\ pc = [t \in Tasks |-> IF t = 1 THEN "rc_loop" ELSE "idle"]
    /\ exc = [t \in Tasks |-> {}]
    /\ consumed = [t \in Tasks |-> <<>>]
    /\ deletes = [t \in Tasks |-> 0]
    /\ remove_failed = [t \in Tasks |-> FALSE]
    /\ snapshot = {}
    /\ db_file = {}
    /\ window = "open"
    /\ invocations = [t \in Tasks |-> IF t # 1 THEN <<>> ELSE IF Req(1).high_quality THEN <<Invocation("palette", {0}), Invocation("gif", {})>> ELSE <<Invocation("gif", {})>>]

NextParser == \E t \in Tasks : RcReadLine(t)

SpecParser == InitParser /\ [][NextParser]_vars

\* ================================================================= claims
\* The job table of the running front end: task id -> record.
JobTable == IF app = "desktop" THEN tasks_db ELSE status
Terminal(r) == r.state \in {"SUCCESS", "FAILURE"}
\* The artifact path of a record: 'output_path' (desktop) or 'result' (webapp).
Artifact(r) == r.output_path \cup r.result
Submitted(t) == request[t] # {}

\* C1: a record whose state is SUCCESS or FAILURE has exactly one of the
\* artifact path and the error detail populated, never both, never neither.
C1_TerminalHasExactlyOne == \A t \in DOMAIN JobTable : Terminal(JobTable[t]) => ((Artifact(JobTable[t]) # {}) # (JobTable[t].error # {}))

\* C2: a record whose state is not terminal (PENDING, PROGRESS) has neither
\* the artifact path nor the error detail populated.
C2_NonTerminalHasNeither == \A t \in DOMAIN JobTable : ~Terminal(JobTable[t]) => (Artifact(JobTable[t]) = {} /\ JobTable[t].error = {})

\* C3: once a job's state is SUCCESS or FAILURE no step of any thread changes
\* that state, and once its terminal write is complete (the writer has left the
\* tasks_db_lock block; a status file is written in one piece) no step changes
\* the record at all: progress updates come before the one terminal write.
C3_TerminalIsFinal == [][\A t \in DOMAIN JobTable : Terminal(JobTable[t]) => (t \in DOMAIN JobTable' /\ JobTable'[t].state = JobTable[t].state /\ (lock # t => JobTable'[t] = JobTable[t]))]_vars

\* A SUCCESS job and a FAILURE job whose workers both ran to their end.
C3_Witness == \E t, u \in DOMAIN JobTable : JobTable[t].state = "SUCCESS" /\ JobTable[u].state = "FAILURE" /\ pc[t] = "done" /\ pc[u] = "done"

C5_PaletteGoneAfterRunConversion == \A t \in Tasks : (app = "webapp" /\ Submitted(t) /\ Req(t).high_quality /\ pc[t] \in {"w_verify", "w_success", "w_except", "w_finally", "done"}) => fs[PalettePath(t)] = "absent"

\* C6: a step that makes a job SUCCESS is taken only while the destination
\* artifact exists with non-zero size.
C6_SuccessNeedsArtifact == [][\A t \in Tasks : (t \in DOMAIN JobTable' /\ JobTable'[t].state = "SUCCESS" /\ (t \notin DOMAIN JobTable \/ JobTable[t].state # "SUCCESS")) => ArtifactOk(Req(t).output_path)]_vars

\* C7: the exception raised for a non-zero exit of the final process carries
\* every line the process wrote to stderr, the lines the loop consumed included.
C7_DiagnosticCarried == [][\A t \in Tasks : (pc[t] = "rc_loop" /\ exc'[t] # {} /\ (CHOOSE e \in exc'[t] : TRUE).msg = "FFmpeg failed: ") => (CHOOSE e \in exc'[t] : TRUE).detail = consumed[t] \o pipe[t]]_vars

\* The error detail of a FAILURE record.
ErrorOf(t) == CHOOSE e \in JobTable[t].error : TRUE
Failed(t) == t \in DOMAIN JobTable /\ JobTable[t].state = "FAILURE" /\ JobTable[t].error # {}

\* C8: the error stored on a FAILURE job holds no text of the external tool,
\* and two jobs that failed the same way store the same error.
C8_ErrorIndependentOfStderr == \A t, u \in Tasks : (Failed(t) /\ Failed(u) /\ ErrorOf(t).msg = ErrorOf(u).msg) => (ErrorOf(t).detail = NoDetail /\ ErrorOf(t) = ErrorOf(u))

\* The request of task t must be rejected: probe failure or window <= 0.
BadWindow(t) == Submitted(t) /\ (Req(t).probe = {} \/ JobDuration(t) <= 0)

\* C9: a request whose probe fails or whose window is <= 0 gets an error
\* response and never a job record.
C9_NoJobForBadWindow == \A t \in Tasks : BadWindow(t) => (t \notin DOMAIN JobTable /\ response[t] = "error")

\* C10: every progress value stored for a job is in 0..100, and in two-pass
\* mode every value reported during the second pass is in 20..100.
C10_ProgressInRange == \A t \in DOMAIN JobTable : \A p \in JobTable[t].progress : (p \in 0..100 /\ ((Req(t).high_quality /\ JobTable[t].step = {"Creating GIF"}) => p \in 20..100))

\* A two-pass job whose time= token lies beyond the window: the value is capped.
C10_Witness == \E t \in DOMAIN JobTable : Req(t).high_quality /\ JobTable[t].step = {"Creating GIF"} /\ JobTable[t].progress = {100} /\ \E l \in {consumed[t][i] : i \in 1..Len(consumed[t])} : \E ts \in l.stamp : CurrentTime(ts) > 100 * JobDuration(t)


\* C11: within one run of a job, the progress values written to its record
\* never decrease: each progress update stores a value at least as large as
\* the value the previous update of the same job stored.
C11_ProgressNonDecreasing == [][\A t \in DOMAIN JobTable : t \in DOMAIN JobTable' => \A p \in JobTable[t].progress : \A q \in JobTable'[t].progress : q >= p]_vars


\* C12: for a line with a token time=HH:MM:SS.hh and a duration > 0 the
\* progress reported is min(100, floor(offset + (elapsed / duration) *
\* (100 - offset))), elapsed = h*3600 + m*60 + s + hh/100, offset 20 in
\* two-pass mode and 0 otherwise; 00:01:30.50 of 90 s gives 100, 00:00:45.00
\* gives 50 (offset 0) and 60 (offset 20); a line with no token reports nothing.
\* The floor is stated by its defining inequalities p <= x < p + 1, multiplied
\* through by 100 * duration.
ClaimedProgress(h, m, s, hh, duration, offset) == LET elapsed100 == (h * 3600 + m * 60 + s) * 100 + hh IN IF elapsed100 * (100 - offset) >= (100 - offset) * 100 * duration THEN 100 ELSE CHOOSE p \in 0..99 : (p - offset) * 100 * duration <= elapsed100 * (100 - offset) /\ elapsed100 * (100 - offset) < (p + 1 - offset) * 100 * duration
LastLine(t) == consumed[t][Len(consumed[t])]
Rank(state) == CASE state = "PENDING" -> 0 [] state \in {"RUNNING", "PROGRESS"} -> 1 [] state \in {"SUCCESS", "FAILURE"} -> 2
C13_StateOrder == [][\A t \in DOMAIN JobTable : t \in DOMAIN JobTable' /\ Rank(JobTable'[t].state) >= Rank(JobTable[t].state) /\ (Rank(JobTable'[t].state) = 2 /\ Rank(JobTable[t].state) < 2 => Rank(JobTable[t].state) = 1)]_vars


\* C14: every job that is in the job table in a non-terminal state eventually
\* reaches SUCCESS or FAILURE, given fair scheduling and terminating external
\* processes; records placed in tasks_db by load_tasks_on_startup included.
C14_EventuallyTerminal == \A id \in JobIds : (id \in DOMAIN JobTable /\ ~Terminal(JobTable[id])) ~> (id \in DOMAIN JobTable /\ Terminal(JobTable[id]))


\* C15: the desktop status query, run concurrently with the worker threads,
\* never returns a half-written record: a snapshot with state SUCCESS carries
\* the artifact path and a snapshot with state FAILURE carries the error.
C15_SnapshotComplete == \A sn \in snapshot : (sn.data.state = "SUCCESS" => Artifact(sn.data) # {}) /\ (sn.data.state = "FAILURE" => sn.data.error # {})

\* C15 witness: a query returned a FAILURE snapshot while the other worker was
\* between its two writes.
C15_Witness == \E sn \in snapshot : sn.data.state = "FAILURE" /\ sn.data.error # {} /\ \E t \in Tasks : t # sn.task /\ pc[t] \in {"d_success_field", "d_failure_field"}


\* C16: every read and write of tasks_db is made holding tasks_db_lock, so no
\* reader, on_closing and save_tasks_on_close included, runs between a
\* worker's write of 'state' and its write of 'error'/'output_path': the table
\* a reader takes holds no FAILURE record whose error is still missing.
C16_ReadersHoldLock == \A table \in db_file : \A id \in DOMAIN table : table[id].state = "FAILURE" => table[id].error # {}


\* C18: the status query never waits for the pipeline: no worker holds
\* tasks_db_lock while its external process is running or waited on, and a
\* worker that holds the lock is one step from releasing it, so the query gets
\* the lock after a bounded number of worker steps.
C18_LockNotHeldDuringRun == \A t \in Tasks : (pc[t] \in {"d_run", "d_success", "d_failure"} => lock # t) /\ (lock = t /\ app = "desktop" => ENABLED DesktopWriteField(t))

\* C18 witness: the status query returned job t's record while t's external
\* process was running and the other worker had just held the lock.
C18_Witness == \E t \in Tasks : pc[t] = "d_run" /\ (\E sn \in snapshot : sn.task = t /\ sn.data.state = "PENDING") /\ \E u \in Tasks : u # t /\ pc[u] = "d_finally"


\* C17: a webapp status query that runs concurrently with update_task_status
\* for the same task reads a complete record written by a single update: it
\* never reads an empty or partially written status file.
C17_ReadsCompleteRecord == \A sn \in snapshot : sn.data.state \in {"NOT_FOUND", "PENDING", "PROGRESS", "SUCCESS", "FAILURE"}


\* C19: any two jobs that exist at the same time have different source paths
\* and different destination paths, two submissions of the same original file
\* or output file name included.
C19_DistinctPaths == \A t, u \in DOMAIN JobTable : t # u => (Req(t).input_path # Req(u).input_path /\ Req(t).output_path # Req(u).output_path)


\* C20: while a job's worker is running no other thread deletes or overwrites
\* the job's source file, palette file, destination artifact or status record:
\* a step that is not a step of that worker leaves all four as they are. The
\* cleanup scheduler, which may run at any moment, is such a thread.
WorkerRunning(t) == pc[t] \notin {"idle", "done"}
WorkerStepped(t) == pc'[t] # pc[t] \/ pipe'[t] # pipe[t]
C20_JobFilesUntouched == [][\A t \in Tasks : (WorkerRunning(t) /\ ~WorkerStepped(t)) => (fs'[Req(t).input_path] = fs[Req(t).input_path] /\ fs'[PalettePath(t)] = fs[PalettePath(t)] /\ fs'[Req(t).output_path] = fs[Req(t).output_path] /\ (t \in DOMAIN JobTable => (t \in DOMAIN JobTable' /\ JobTable'[t] = JobTable[t])))]_vars


\* C21: two jobs with distinct source and destination paths are independent:
\* a step of one job's worker leaves the other job's source, palette and
\* artifact files, its record, its pending exception and its worker's position
\* as they are, so each job's terminal state and the deletion of its source
\* follow from its own external-process results only.
DistinctPaths(t, u) == Req(t).input_path # Req(u).input_path /\ Req(t).output_path # Req(u).output_path
C21_JobsIndependent == [][\A t, u \in Tasks : (t # u /\ Submitted(t) /\ Submitted(u) /\ DistinctPaths(t, u) /\ WorkerStepped(u)) => (fs'[Req(t).input_path] = fs[Req(t).input_path] /\ fs'[PalettePath(t)] = fs[PalettePath(t)] /\ fs'[Req(t).output_path] = fs[Req(t).output_path] /\ (t \in DOMAIN JobTable => (t \in DOMAIN JobTable' /\ JobTable'[t] = JobTable[t])) /\ exc'[t] = exc[t] /\ pc'[t] = pc[t] /\ deletes'[t] = deletes[t])]_vars

\* C21 witness: both workers are done, one job is FAILURE, the other SUCCESS
\* with its source deleted and its artifact in place.
C21_Witness == \E t, u \in DOMAIN JobTable : t # u /\ DistinctPaths(t, u) /\ pc[t] = "done" /\ pc[u] = "done" /\ JobTable[u].state = "FAILURE" /\ JobTable[t].state = "SUCCESS" /\ fs[Req(t).input_path] = "absent" /\ fs[Req(t).output_path] = "data" /\ Req(t).high_quality /\ Req(u).high_quality


\* C22: creating a job under an identifier already present in the job table
\* fails and leaves the existing record unchanged: a submit never overwrites
\* an existing record.
C22_CreateKeepsExisting == [][\A t \in DOMAIN JobTable : (pc[t] \in {"idle", "done"} /\ pc'[t] \notin {"idle", "done"}) => (t \in DOMAIN JobTable' /\ JobTable'[t] = JobTable[t])]_vars


\* C23: cleanup of the source is delete-if-exists: when the delete runs and the
\* source is already absent, removed by another thread after the existence
\* check, nothing is raised and the worker goes on, so the job's terminal
\* outcome is not changed; stated for a job whose pipeline raised nothing.
C23_DeleteIfExists == [][\A t \in Tasks : (pc[t] = "rc_remove_input" /\ fs[Req(t).input_path] = "absent" /\ exc[t] = {} /\ pc'[t] # pc[t]) => (exc'[t] = {} /\ pc'[t] = "rc_finally_palette")]_vars


\* ------------------------------------------- one submission of any request
\* Requests as the handlers accept them after type conversion: start_time any
\* float, fps and width any int; 'configured' is whether FFMPEG_PATH and
\* FFPROBE_PATH are present in the desktop app's Flask config.
RequestWindows == Windows \cup {[start_time |-> -5, end_time |-> {}]}
FrameRates == {0, 15}
Widths == {0, 640}

DesktopSubmitAny ==
    /\ \A t \in Tasks : request[t] = {}
    /\ \E name \in OriginalNames, w \in RequestWindows, hq \in BOOLEAN, fps \in FrameRates, width \in Widths, probe \in ProbeResults, configured \in BOOLEAN :
        DesktopSubmitForm(FreshId, Form(name, w, hq, fps, width), probe, configured)

WebSubmitAny ==
    /\ \A t \in Tasks : request[t] = {}
    /\ \E w \in RequestWindows, hq \in BOOLEAN, fps \in FrameRates, width \in Widths, probe \in ProbeResults :
        WebSubmitForm(FreshId, Form("upload", w, hq, fps, width), probe)

NextSubmit ==
    \/ DesktopSubmitAny
    \/ WebSubmitAny
    \/ \E t \in Tasks : DesktopRun(t)
    \/ \E t \in Tasks : DesktopWriteState(t)
    \/ \E t \in Tasks : DesktopWriteField(t)
    \/ \E t \in Tasks : DesktopFinally(t)
    \/ \E t \in Tasks : WebBegin(t)
    \/ \E t \in Tasks : WebProbe(t)
    \/ \E t \in Tasks : RcAnnounce(t)
    \/ \E t \in Tasks : RcPaletteRun(t)
    \/ \E t \in Tasks : RcAnnounceGif(t)
    \/ \E t \in Tasks : RcPopen(t)
    \/ \E t \in Tasks : RcReadLine(t)
    \/ \E t \in Tasks : RcWait(t)
    \/ \E t \in Tasks : RcFinallyInput(t)
    \/ \E t \in Tasks : RcFinallyPalette(t)
    \/ \E t \in Tasks : WebVerify(t)
    \/ \E t \in Tasks : WebSuccess(t)
    \/ \E t \in Tasks : WebExcept(t)
    \/ \E t \in Tasks : WebFinally(t)

SpecSubmit == Init /\ [][NextSubmit]_vars

\* ------------------------------------------------ claims on invocations
\* C24 as stated: a high-quality job that succeeded has performed exactly two
\* ffmpeg invocations, any other job that succeeded exactly one.
Succeeded(t) == Submitted(t) /\ pc[t] = "done" /\ t \in DOMAIN JobTable /\ JobTable[t].state = "SUCCESS"
TwoPass(t) == app = "webapp" /\ Req(t).high_quality
Commands(t) == [i \in 1..Len(invocations[t]) |-> invocations[t][i].cmd]
PaletteFailed(t) == Submitted(t) /\ Len(invocations[t]) >= 1 /\ invocations[t][1] = Invocation("palette", {1})
C25_PaletteFailureStopsJob == \A t \in Tasks : PaletteFailed(t) =>
    /\ Len(invocations[t]) = 1
    /\ t \in DOMAIN status /\ status[t].step # {"Creating GIF"}
    /\ pc[t] \notin {"rc_announce_gif", "rc_popen", "rc_loop", "w_verify", "w_success"}
    /\ pc[t] = "done" => status[t].state = "FAILURE"

\* C25 witness: the worker of a job whose palette generation exited non-zero
\* is done and the job is in FAILURE.
C25_Witness == \E t \in Tasks : PaletteFailed(t) /\ pc[t] = "done" /\ status[t].state = "FAILURE"


\* C26: run_conversion queries the exit status of the final process only after
\* its stderr has been read to end-of-stream: the step that obtains the return
\* code is taken with nothing left in the pipe, and while lines are left the
\* worker is reading, not waiting, so its next read is always possible.
Running(t) == Len(invocations[t]) > 0 /\ invocations[t][Len(invocations[t])].returncode = {}
C26_ExitStatusAfterDrain == [][\A t \in Tasks :
    /\ (Running(t) /\ Len(invocations'[t]) = Len(invocations[t]) /\ invocations'[t][Len(invocations[t])].returncode # {}) => (pipe[t] = <<>> /\ pipe'[t] = <<>>)
    /\ (Running(t) /\ pipe[t] # <<>>) => (pc[t] = "rc_loop" /\ ENABLED RcReadLine(t))]_vars

\* C26 witness: the final process of a job wrote MaxLines lines, the loop read
\* them all and reported progress from them, and the exit code is known.
C26_Witness == \E t \in Tasks : Submitted(t) /\ pc[t] = "rc_finally_input" /\ Len(invocations[t]) > 0 /\ invocations[t][Len(invocations[t])] = Invocation("gif", {0}) /\ pipe[t] = <<>> /\ (\E q \in status[t].progress : q > 20)


\* C29: a job whose every external invocation exited with code zero and whose
\* destination artifact exists with non-zero size ends in SUCCESS, even when
\* deleting the source or the palette in the cleanup block failed.
AllExitedZero(t) == Len(invocations[t]) > 0 /\ \A i \in 1..Len(invocations[t]) : invocations[t][i].returncode = {0}
C29_SuccessDespiteCleanupFailure == \A t \in Tasks : (Submitted(t) /\ pc[t] = "done" /\ AllExitedZero(t) /\ ArtifactOk(Req(t).output_path)) => (t \in DOMAIN JobTable /\ JobTable[t].state = "SUCCESS")


\* C27: a request whose parameters violate the request constraints
\* (start_time < 0, fps <= 0 or width <= 0) is rejected by submit: it gets no
\* job record and no worker is started for it.
ViolatesConstraints(r) == r.start_time < 0 \/ r.fps <= 0 \/ r.width <= 0
C27_InvalidRequestRejected == \A t \in Tasks : (Submitted(t) /\ ViolatesConstraints(Req(t))) => (t \notin DOMAIN JobTable /\ pc[t] = "idle" /\ response[t] = "error")


\* C28: when the desktop submit returns an error after it copied the source
\* into the upload folder, the copy no longer exists and tasks_db is as it
\* was before the call.
C28_RejectedLeavesNoCopy == [][\A t \in Tasks : (app = "desktop" /\ ~Submitted(t) /\ request'[t] # {} /\ response'[t] = "error") => (fs'[InputPath(t)] = "absent" /\ tasks_db' = tasks_db)]_vars

====
